---------------------------- MODULE Spec2Model ----------------------------
(***************************************************************************)
(* State-machine model of the tg-helper bot (latest revision of main.go,   *)
(* the OAuth revision): the two Firestore collections, the OAuth callback  *)
(* handler, the /connect_drive handler, the file relay and the webhook     *)
(* dispatcher.  Every HTTP request is served by its own goroutine, so each *)
(* handler is a process whose steps are its calls to the outside world     *)
(* (Firestore, the OAuth token endpoint, Telegram, Drive); steps of        *)
(* different requests interleave freely.                                   *)
(*                                                                         *)
(* An external call has one outcome for every branch the handler takes on  *)
(* its result.  A call whose error the handler discards (the deferred      *)
(* Delete) takes effect.  time.Now() values are written and never read by  *)
(* any handler and are not modelled.  A state token is 32 bytes from       *)
(* crypto/rand: a fresh value on every draw.                               *)
(***************************************************************************)
EXTENDS Integers, Sequences, FiniteSets

\* ---- bounds of the model ----
NumUsers == 2
MaxStates == 2
MaxCallbacks == 2
MaxWebhooks == 1
NumBundles == 2

\* ---- program constants ----
StatusOK == 200
StatusBadRequest == 400
StatusInternalServerError == 500
\* const maxFileSize = 20 * 1024 * 1024
maxFileSize == 20971520

Users == 1..NumUsers
States == 1..MaxStates
\* what a callback request can carry in ?state= : an issued token, a token
\* value not issued yet, or 0 (a value that is never issued, e.g. empty)
QueryStates == 0..MaxStates
CbIds == 1..MaxCallbacks
WhIds == 1..MaxWebhooks
NoDoc == [exists |-> FALSE]
NoToken == [valid |-> FALSE]

\* The token bundles the provider's token endpoint can answer with.
TokenBundle(k) ==
    [AccessToken |-> 100 + k, RefreshToken |-> 200 + k,
     TokenType |-> 300 + (k % 2), Expiry |-> 400 + k]
Bundles == {TokenBundle(k) : k \in 1..NumBundles}

VARIABLES
    stateStore,   \* collection oauth_states: token -> document or NoDoc
    credStore,    \* collection user_tokens: user id -> document or NoDoc
    nonces,       \* number of state tokens drawn from crypto/rand so far
    cb,           \* the OAuth callback requests in flight (one record each)
    wh,           \* the webhook requests in flight (one record each)
    owner,        \* history: token -> the user whose /connect_drive stored it
    cbStarted,    \* history: token -> a callback with it has started since it was issued
    cbFinished,   \* history: token -> a callback with it, started since issue, has returned
    lastBundle    \* history: user -> the exchanged bundle of the last credential write

vars == <<stateStore, credStore, nonces, cb, wh, owner, cbStarted, cbFinished,
          lastBundle>>

\* ---------------------------------------------------------------------
\* Documents
\* ---------------------------------------------------------------------

\* Faulty variant: the document records another id than the sender's
StateDocOtherUser(userID) == [exists |-> TRUE, user_id |-> (userID % NumUsers) + 1]

\* the document handleConnectDrive writes under the state token
StateDoc(userID) == [exists |-> TRUE, user_id |-> userID]

\* doc.DataTo(&stateData); userID := stateData.UserID
StateDataUserID(doc) == doc.user_id

\* Faulty variant: the access token is stored in the refresh-token field too
MakeUserTokenNoRefresh(userID, token) ==
    [exists |-> TRUE,
     UserID |-> userID,
     RefreshToken |-> token.AccessToken,
     AccessToken |-> token.AccessToken,
     TokenType |-> token.TokenType,
     Expiry |-> token.Expiry]

\* the UserToken struct built from the exchanged token
MakeUserToken(userID, token) ==
    [exists |-> TRUE,
     UserID |-> userID,
     RefreshToken |-> token.RefreshToken,
     AccessToken |-> token.AccessToken,
     TokenType |-> token.TokenType,
     Expiry |-> token.Expiry]

\* ---------------------------------------------------------------------
\* OAuth callback: oauthCallbackHandler
\* ---------------------------------------------------------------------

IdleCallback ==
    [pc |-> "idle", state |-> 0, found |-> FALSE, userID |-> 0,
     token |-> NoToken, status |-> 0, body |-> "",
     exchanged |-> FALSE, exchErr |-> FALSE, setErr |-> FALSE, wrote |-> FALSE,
     present |-> FALSE,  \* history: the state document existed at the lookup
     order |-> ""]       \* history: where the request stands among the callbacks
                         \* carrying the same token (see Order)

CbInFlight(r) == cb[r].pc # "idle"

Issued(s) == s \in States /\ owner[s] \in Users

\* http.Error(w, text, code) and fmt.Fprintf(w, text): the response written
Respond(rec, code, text) == [rec EXCEPT !.pc = "return", !.status = code, !.body = text]

\* doc, err := ...Collection(stateCollection).Doc(state).Get(ctx); err != nil
StateGetErr(store, s) == ~store[s].exists

\* Faulty variant: the lookup's error is not checked: the handler goes on with the
\* zero user id of an empty document
StateCheckIgnoringErr(rec, store) ==
    [rec EXCEPT !.pc = "exchange", !.found = TRUE,
                !.userID = IF store[rec.state].exists
                           THEN StateDataUserID(store[rec.state]) ELSE 0]

\* What the handler does with the result of the state lookup: reject with
\* 400, or go on to the exchange as the user recorded in the document (the
\* Delete of the document is deferred to the handler's return).
StateCheck(rec, store) ==
    IF StateGetErr(store, rec.state)
    THEN Respond(rec, StatusBadRequest, "Invalid state parameter. Please try again.")
    ELSE [rec EXCEPT !.pc = "exchange", !.found = TRUE,
                     !.userID = StateDataUserID(store[rec.state])]

\* Where a callback arriving now with ?state=s stands: "early" when s is not
\* an issued token, "first" when no callback has carried s since it was
\* issued, "late" when one that did has already returned, and "overlap" when
\* the earlier ones are all still being served.
Order(s) ==
    IF ~Issued(s) THEN "early"
    ELSE IF ~cbStarted[s] THEN "first"
    ELSE IF cbFinished[s] THEN "late"
    ELSE "overlap"

\* GET /oauth/callback?state=s&code=... arrives and does step 1, the lookup
\* of the state document.  (The code is judged by the token endpoint; its
\* verdict is drawn in CbExchange.)
CbGetState(r, s) ==
    /\ ~CbInFlight(r)
    /\ \A q \in CbIds : q < r => CbInFlight(q)
    /\ LET arrived == [IdleCallback EXCEPT
                          !.state = s,
                          !.present = stateStore[s].exists,
                          !.order = Order(s)] IN
       cb' = [cb EXCEPT ![r] = StateCheck(arrived, stateStore)]
    /\ cbStarted' = [t \in States |-> cbStarted[t] \/ (t = s /\ Issued(s))]
    /\ UNCHANGED <<stateStore, credStore, nonces, wh, owner, cbFinished, lastBundle>>

\* Faulty variant: the failed exchange lacks its return and goes on to the write
CbExchangeFallsThrough(r) ==
    /\ cb[r].pc = "exchange"
    /\ \/ cb' = [cb EXCEPT ![r].pc = "set",
                           ![r].exchErr = TRUE,
                           ![r].status = StatusInternalServerError,
                           ![r].body = "Failed to exchange token.",
                           ![r].token = [AccessToken |-> 0, RefreshToken |-> 0,
                                         TokenType |-> 0, Expiry |-> 0]]
       \/ \E b \in Bundles :
            cb' = [cb EXCEPT ![r].pc = "set", ![r].exchanged = TRUE, ![r].token = b]
    /\ UNCHANGED <<stateStore, credStore, nonces, wh, owner, cbStarted, cbFinished, lastBundle>>

\* 2. token, err := oauth2Config.Exchange(ctx, code)
CbExchange(r) ==
    /\ cb[r].pc = "exchange"
    /\ \/ cb' = [cb EXCEPT ![r] =
                   Respond([@ EXCEPT !.exchErr = TRUE],
                           StatusInternalServerError, "Failed to exchange token.")]
       \/ \E b \in Bundles :
            cb' = [cb EXCEPT ![r].pc = "set", ![r].exchanged = TRUE, ![r].token = b]
    /\ UNCHANGED <<stateStore, credStore, nonces, wh, owner, cbStarted, cbFinished, lastBundle>>

\* Faulty variant: the failed write lacks its return and the success page follows
CbSetCredIgnoringErr(r) ==
    /\ cb[r].pc = "set"
    /\ \/ /\ cb' = [cb EXCEPT ![r] =
                      Respond([@ EXCEPT !.setErr = TRUE], StatusOK, "authorization succeeded")]
          /\ UNCHANGED <<credStore, lastBundle>>
       \/ /\ credStore' = [credStore EXCEPT
                              ![cb[r].userID] = MakeUserToken(cb[r].userID, cb[r].token)]
          /\ lastBundle' = [lastBundle EXCEPT ![cb[r].userID] = cb[r].token]
          /\ cb' = [cb EXCEPT ![r] =
                      Respond([@ EXCEPT !.wrote = TRUE], StatusOK, "authorization succeeded")]
    /\ UNCHANGED <<stateStore, nonces, wh, owner, cbStarted, cbFinished>>

\* Faulty variant: the write merges into the existing document and keeps the
\* refresh token that is already there
CbSetCredMerging(r) ==
    /\ cb[r].pc = "set"
    /\ \/ /\ cb' = [cb EXCEPT ![r] =
                      Respond([@ EXCEPT !.setErr = TRUE],
                              StatusInternalServerError, "Failed to save token.")]
          /\ UNCHANGED <<credStore, lastBundle>>
       \/ /\ LET u == cb[r].userID
                 new == MakeUserToken(u, cb[r].token) IN
             credStore' = [credStore EXCEPT
                              ![u] = IF credStore[u].exists
                                     THEN [new EXCEPT !.RefreshToken = credStore[u].RefreshToken]
                                     ELSE new]
          /\ lastBundle' = [lastBundle EXCEPT ![cb[r].userID] = cb[r].token]
          /\ cb' = [cb EXCEPT ![r] =
                      Respond([@ EXCEPT !.wrote = TRUE], StatusOK, "authorization succeeded")]
    /\ UNCHANGED <<stateStore, nonces, wh, owner, cbStarted, cbFinished>>

\* Faulty variant: a failed write removes the user's document
CbSetCredClearingOnError(r) ==
    /\ cb[r].pc = "set"
    /\ \/ /\ cb' = [cb EXCEPT ![r] =
                      Respond([@ EXCEPT !.setErr = TRUE],
                              StatusInternalServerError, "Failed to save token.")]
          /\ credStore' = [credStore EXCEPT ![cb[r].userID] = NoDoc]
          /\ lastBundle' = [lastBundle EXCEPT ![cb[r].userID] = NoToken]
       \/ /\ credStore' = [credStore EXCEPT
                              ![cb[r].userID] = MakeUserToken(cb[r].userID, cb[r].token)]
          /\ lastBundle' = [lastBundle EXCEPT ![cb[r].userID] = cb[r].token]
          /\ cb' = [cb EXCEPT ![r] =
                      Respond([@ EXCEPT !.wrote = TRUE], StatusOK, "authorization succeeded")]
    /\ UNCHANGED <<stateStore, nonces, wh, owner, cbStarted, cbFinished>>

\* 3. ...Collection(tokenCollection).Doc(fmt.Sprintf("%d", userID)).Set(ctx, userToken)
CbSetCred(r) ==
    /\ cb[r].pc = "set"
    /\ \/ /\ cb' = [cb EXCEPT ![r] =
                      Respond([@ EXCEPT !.setErr = TRUE],
                              StatusInternalServerError, "Failed to save token.")]
          /\ UNCHANGED <<credStore, lastBundle>>
       \/ /\ credStore' = [credStore EXCEPT
                              ![cb[r].userID] = MakeUserToken(cb[r].userID, cb[r].token)]
          /\ lastBundle' = [lastBundle EXCEPT ![cb[r].userID] = cb[r].token]
          /\ cb' = [cb EXCEPT ![r] =
                      Respond([@ EXCEPT !.wrote = TRUE], StatusOK, "authorization succeeded")]
    /\ UNCHANGED <<stateStore, nonces, wh, owner, cbStarted, cbFinished>>

\* Faulty variant: the Delete is missing
DeferredDeleteDropped(rec, store) == store

\* Faulty variant: the Delete is an ordinary call at the end of the success path
DeferredDeleteOnSuccess(rec, store) ==
    IF rec.found /\ rec.status = StatusOK THEN [store EXCEPT ![rec.state] = NoDoc] ELSE store

\* The handler returns.  defer doc.Ref.Delete(ctx) was registered right after
\* the state check passed, so it runs on the return of every later path.
DeferredDelete(rec, store) ==
    IF rec.found THEN [store EXCEPT ![rec.state] = NoDoc] ELSE store

CbReturn(r) ==
    /\ cb[r].pc = "return"
    /\ stateStore' = DeferredDelete(cb[r], stateStore)
    /\ cb' = [cb EXCEPT ![r] = IdleCallback]
    /\ cbFinished' = [t \in States |->
                        cbFinished[t] \/ (t = cb[r].state /\ cb[r].order # "early")]
    /\ UNCHANGED <<credStore, nonces, wh, owner, cbStarted, lastBundle>>

\* ---------------------------------------------------------------------
\* Telegram updates (the inputs of the webhook)
\* ---------------------------------------------------------------------

NoAttachment == [present |-> FALSE]
FileSizes == {0, 500000, maxFileSize, maxFileSize + 1, 21000000}

Documents ==
    {[present |-> TRUE, FileID |-> "abc123", FileName |-> <<"report.pdf">>, FileSize |-> sz] :
        sz \in FileSizes}

PhotoS == [FileID |-> "photoS", FileSize |-> 1000, Width |-> 90]
PhotoXL == [FileID |-> "photoXL", FileSize |-> 500000, Width |-> 1280]
PhotoHuge == [FileID |-> "photoHuge", FileSize |-> 21000000, Width |-> 2560]

\* the size variants of a photo message, in either order
PhotoLists == {<<PhotoXL>>, <<PhotoS, PhotoXL>>, <<PhotoXL, PhotoS>>, <<PhotoS, PhotoHuge>>}

Commands == {"start", "connect_drive", "help", "settings"}

Message(u, c, t, d, p) ==
    [From |-> u, Command |-> c, Text |-> t, Document |-> d, Photo |-> p]

Messages ==
    {Message(u, c, "/cmd", NoAttachment, <<>>) : u \in Users, c \in Commands} \cup
    {Message(u, "", "hello", NoAttachment, <<>>) : u \in Users} \cup
    {Message(u, "", "", d, <<>>) : u \in Users, d \in Documents} \cup
    {Message(u, "", "", NoAttachment, p) : u \in Users, p \in PhotoLists}

NoMessage == [absent |-> TRUE]

Updates ==
    {[decodes |-> FALSE, hasMessage |-> FALSE, Message |-> NoMessage],
     [decodes |-> TRUE, hasMessage |-> FALSE, Message |-> NoMessage]} \cup
    {[decodes |-> TRUE, hasMessage |-> TRUE, Message |-> m] : m \in Messages}

\* update.Message.IsCommand()
IsCommand(m) == m.Command # ""

\* ---------------------------------------------------------------------
\* Webhook requests: webhookHandler, handleConnectDrive, handleFile
\* ---------------------------------------------------------------------

NoReply == [kind |-> "", name |-> <<>>, num |-> 0]
NoFile == [created |-> FALSE]

IdleWebhook ==
    [pc |-> "idle", update |-> [decodes |-> FALSE, hasMessage |-> FALSE, Message |-> NoMessage],
     status |-> 0,
     state |-> 0,            \* handleConnectDrive: the state token drawn
     hadCred |-> FALSE,      \* history: the user had a credential at the lookup
     bundleThen |-> NoToken, \* history: the last exchanged bundle at the lookup
     userToken |-> NoDoc,    \* handleFile: the document read
     client |-> NoToken,     \* handleFile: the oauth2.Token the client is built from
     fileID |-> "", fileName |-> <<>>, fileSize |-> 0,
     urlFor |-> "",          \* the file id handed to GetFileDirectURL
     respStatus |-> 0,       \* the download response's status code
     bodyOpen |-> FALSE,
     upload |-> NoFile,      \* the drive.File created
     err |-> "",             \* the call whose error ended the handler
     reply |-> NoReply,      \* the text handed to replyToUser
     trace |-> <<>>]         \* the external calls made, in order

WhInFlight(w) == wh[w].pc # "idle"

Msg(w) == wh[w].update.Message

\* tokens a /connect_drive in flight is still going to draw
PendingDraws == Cardinality({w \in WhIds : wh[w].pc = "connect"})

\* replyToUser(chatID, messageID, text): the handler goes on to send text
Reply(rec, kind, name, num) ==
    [rec EXCEPT !.pc = "reply", !.reply = [kind |-> kind, name |-> name, num |-> num]]

\* Faulty variant: the failing step returns without telling the sender
FailWithoutReply(rec, call, kind) ==
    [rec EXCEPT !.err = call, !.pc = "return", !.status = StatusOK]

\* if err != nil { log...; replyToUser(..., text); return }
Fail(rec, call, kind) == Reply([rec EXCEPT !.err = call], kind, <<>>, 0)

\* Faulty variant: the command table has a "help" entry that shares the welcome
RouteWithHelp(m) ==
    IF IsCommand(m)
    THEN CASE m.Command \in {"start", "help"} -> "start"
           [] m.Command = "connect_drive" -> "connect"
           [] OTHER -> "unknown"
    ELSE IF m.Document.present \/ Len(m.Photo) > 0 THEN "lookup"
    ELSE "prompt"

\* Faulty variant: every message that is not a command is handed to handleFile
RouteTextToRelay(m) ==
    IF IsCommand(m)
    THEN CASE m.Command = "start" -> "start"
           [] m.Command = "connect_drive" -> "connect"
           [] OTHER -> "unknown"
    ELSE "lookup"

\* the routing of webhookHandler: the handler's next step for a decoded message
Route(m) ==
    IF IsCommand(m)
    THEN CASE m.Command = "start" -> "start"
           [] m.Command = "connect_drive" -> "connect"
           [] OTHER -> "unknown"
    ELSE IF m.Document.present \/ Len(m.Photo) > 0 THEN "lookup"
    ELSE "prompt"

\* Faulty variant: the update.Message == nil check is missing and an update
\* without a message is answered like a plain text
DispatchWithoutNilCheck(rec) ==
    LET u == rec.update
        to == IF u.hasMessage THEN Route(u.Message) ELSE "prompt" IN
    IF ~u.decodes
    THEN [rec EXCEPT !.pc = "return", !.status = StatusBadRequest]
    ELSE CASE to = "start" -> Reply(rec, "welcome", <<>>, 0)
           [] to = "unknown" -> Reply(rec, "unrecognized", <<>>, 0)
           [] to = "prompt" -> Reply(rec, "prompt", <<>>, 0)
           [] OTHER -> [rec EXCEPT !.pc = to]

\* webhookHandler up to its first call out: decode, nil check, routing
Dispatch(rec) ==
    LET u == rec.update
        to == IF u.hasMessage THEN Route(u.Message) ELSE "" IN
    IF ~u.decodes
    THEN [rec EXCEPT !.pc = "return", !.status = StatusBadRequest]
    ELSE IF ~u.hasMessage
    THEN [rec EXCEPT !.pc = "return", !.status = StatusOK]
    ELSE CASE to = "start" -> Reply(rec, "welcome", <<>>, 0)
           [] to = "unknown" -> Reply(rec, "unrecognized", <<>>, 0)
           [] to = "prompt" -> Reply(rec, "prompt", <<>>, 0)
           [] OTHER -> [rec EXCEPT !.pc = to]

\* POST / arrives with an update and is decoded and routed
WhDecode(w, upd) ==
    /\ ~WhInFlight(w)
    /\ \A q \in WhIds : q < w => WhInFlight(q)
    /\ (upd.hasMessage /\ upd.Message.Command = "connect_drive")
          => nonces + PendingDraws < MaxStates
    /\ wh' = [wh EXCEPT ![w] = Dispatch([IdleWebhook EXCEPT !.update = upd])]
    /\ UNCHANGED <<stateStore, credStore, nonces, cb, owner, cbStarted, cbFinished, lastBundle>>

\* Faulty variant: the error of the Set is not checked and the URL is sent anyway
WhConnectDriveIgnoringErr(w) ==
    /\ wh[w].pc = "connect"
    /\ nonces < MaxStates
    /\ nonces' = nonces + 1
    /\ LET state == nonces + 1
           sent == Reply([wh[w] EXCEPT !.state = state, !.trace = Append(@, "stateSet")],
                         "authURL", <<>>, state) IN
       \/ /\ wh' = [wh EXCEPT ![w] = [sent EXCEPT !.err = "stateSet"]]
          /\ UNCHANGED <<stateStore, owner>>
       \/ /\ stateStore' = [stateStore EXCEPT ![state] = StateDoc(Msg(w).From)]
          /\ owner' = [owner EXCEPT ![state] = Msg(w).From]
          /\ wh' = [wh EXCEPT ![w] = sent]
    /\ UNCHANGED <<credStore, cb, cbStarted, cbFinished, lastBundle>>

\* Faulty variant: a user has one pending state token: storing a new one drops
\* the documents stored for the same user before
WhConnectDriveSingleSlot(w) ==
    /\ wh[w].pc = "connect"
    /\ nonces < MaxStates
    /\ nonces' = nonces + 1
    /\ LET state == nonces + 1
           u == Msg(w).From IN
       \/ /\ wh' = [wh EXCEPT ![w] =
                      Fail([@ EXCEPT !.state = state, !.trace = Append(@, "stateSet")],
                           "stateSet", "linkError")]
          /\ UNCHANGED <<stateStore, owner>>
       \/ /\ stateStore' = [t \in QueryStates |->
                               IF t = state THEN StateDoc(u)
                               ELSE IF stateStore[t].exists /\ stateStore[t].user_id = u
                               THEN NoDoc
                               ELSE stateStore[t]]
          /\ owner' = [owner EXCEPT ![state] = u]
          /\ wh' = [wh EXCEPT ![w] =
                      Reply([@ EXCEPT !.state = state, !.trace = Append(@, "stateSet")],
                            "authURL", <<>>, state)]
    /\ UNCHANGED <<credStore, cb, cbStarted, cbFinished, lastBundle>>

\* handleConnectDrive: draw the state token, Set it in oauth_states with the
\* sender's id, then reply with the authorization URL (or with the error)
WhConnectDrive(w) ==
    /\ wh[w].pc = "connect"
    /\ nonces < MaxStates
    /\ nonces' = nonces + 1
    /\ LET state == nonces + 1 IN
       \/ /\ wh' = [wh EXCEPT ![w] =
                      Fail([@ EXCEPT !.state = state, !.trace = Append(@, "stateSet")],
                           "stateSet", "linkError")]
          /\ UNCHANGED <<stateStore, owner>>
       \/ /\ stateStore' = [stateStore EXCEPT ![state] = StateDoc(Msg(w).From)]
          /\ owner' = [owner EXCEPT ![state] = Msg(w).From]
          /\ wh' = [wh EXCEPT ![w] =
                      Reply([@ EXCEPT !.state = state, !.trace = Append(@, "stateSet")],
                            "authURL", <<>>, state)]
    /\ UNCHANGED <<credStore, cb, cbStarted, cbFinished, lastBundle>>

\* token := &oauth2.Token{...} built from the stored UserToken
ClientToken(userToken) ==
    [AccessToken |-> userToken.AccessToken,
     TokenType |-> userToken.TokenType,
     RefreshToken |-> userToken.RefreshToken,
     Expiry |-> userToken.Expiry]

\* how ...Collection(tokenCollection).Doc(id).Get(ctx) can end
CredGetOutcomes(doc) == IF doc.exists THEN {"found", "error"} ELSE {"notFound", "error"}

\* Faulty variant: NotFound is not treated as an error: the relay goes on with the
\* zero UserToken
AfterCredGetIgnoringNotFound(rec, doc, outcome) ==
    CASE outcome = "error" -> Fail(rec, "credGet", "readError")
      [] outcome = "notFound" ->
            [rec EXCEPT !.pc = "service",
                        !.client = [AccessToken |-> 0, TokenType |-> 0,
                                    RefreshToken |-> 0, Expiry |-> 0]]
      [] OTHER -> [rec EXCEPT !.pc = "service", !.userToken = doc,
                              !.client = ClientToken(doc)]

\* handleFile 1-2: what the relay does with the result of the lookup:
\* NotFound and other errors reply differently and return; on success the
\* document is decoded and the client's token is built from it
AfterCredGet(rec, doc, outcome) ==
    CASE outcome = "notFound" -> Fail(rec, "credNotFound", "notLinked")
      [] outcome = "error" -> Fail(rec, "credGet", "readError")
      [] OTHER -> [rec EXCEPT !.pc = "service", !.userToken = doc,
                              !.client = ClientToken(doc)]

\* handleFile 1-2: Get the sender's document from user_tokens
WhGetCred(w) ==
    /\ wh[w].pc = "lookup"
    /\ LET u == Msg(w).From
           doc == credStore[u]
           seen == [wh[w] EXCEPT !.hadCred = doc.exists,
                                 !.bundleThen = lastBundle[u],
                                 !.trace = Append(@, "credGet")] IN
       \E outcome \in CredGetOutcomes(doc) :
            wh' = [wh EXCEPT ![w] = AfterCredGet(seen, doc, outcome)]
    /\ UNCHANGED <<stateStore, credStore, nonces, cb, owner, cbStarted, cbFinished, lastBundle>>

\* handleFile 3: drive.NewService(ctx, option.WithHTTPClient(client))
WhNewService(w) ==
    /\ wh[w].pc = "service"
    /\ \/ wh' = [wh EXCEPT ![w] = Fail(@, "newService", "serviceError")]
       \/ wh' = [wh EXCEPT ![w].pc = "classify"]
    /\ UNCHANGED <<stateStore, credStore, nonces, cb, owner, cbStarted, cbFinished, lastBundle>>

\* fmt.Sprintf("%s.jpg", photo.FileID)
JpgName(fileID) == <<fileID, ".jpg">>

\* fileID, fileName, fileSize of the message: the document, else the last
\* size variant of the photo
Classify(m) ==
    IF m.Document.present
    THEN [ok |-> TRUE, fileID |-> m.Document.FileID, fileName |-> m.Document.FileName,
          fileSize |-> m.Document.FileSize]
    ELSE IF Len(m.Photo) > 0
    THEN LET photo == m.Photo[Len(m.Photo)] IN
         [ok |-> TRUE, fileID |-> photo.FileID, fileName |-> JpgName(photo.FileID),
          fileSize |-> photo.FileSize]
    ELSE [ok |-> FALSE, fileID |-> "", fileName |-> <<>>, fileSize |-> 0]

\* Faulty variant: the guard uses the 50 MB limit of uploads by bots
TooLarge50MB(fileSize) == fileSize > 50 * 1024 * 1024

\* Faulty variant: the comparison is >= and a file of exactly the limit is rejected
TooLargeAtLimit(fileSize) == fileSize >= maxFileSize

\* if fileSize > maxFileSize
TooLarge(fileSize) == fileSize > maxFileSize

\* fmt.Sprintf("%.2f", float64(fileSize)/1024/1024), in hundredths of a MB
SizeInHundredthsMB(fileSize) ==
    (fileSize \div 1048576) * 100 + ((fileSize % 1048576) * 200 + 1048576) \div 2097152

\* handleFile: classification and the size guard
WhSizeGuard(w) ==
    /\ wh[w].pc = "classify"
    /\ LET f == Classify(Msg(w))
           rec == [wh[w] EXCEPT !.fileID = f.fileID, !.fileName = f.fileName,
                                !.fileSize = f.fileSize] IN
       wh' = [wh EXCEPT ![w] =
                IF ~f.ok THEN [rec EXCEPT !.pc = "return", !.status = StatusOK]
                ELSE IF TooLarge(f.fileSize)
                THEN Reply(rec, "tooLarge", <<>>, SizeInHundredthsMB(f.fileSize))
                ELSE [rec EXCEPT !.pc = "geturl"]]
    /\ UNCHANGED <<stateStore, credStore, nonces, cb, owner, cbStarted, cbFinished, lastBundle>>

\* fileURL, err := bot.GetFileDirectURL(fileID)
WhGetFileURL(w) ==
    /\ wh[w].pc = "geturl"
    /\ LET rec == [wh[w] EXCEPT !.trace = Append(@, "getFileURL"),
                                 !.urlFor = wh[w].fileID] IN
       \/ wh' = [wh EXCEPT ![w] = Fail(rec, "getFileURL", "urlError")]
       \/ wh' = [wh EXCEPT ![w] = [rec EXCEPT !.pc = "download"]]
    /\ UNCHANGED <<stateStore, credStore, nonces, cb, owner, cbStarted, cbFinished, lastBundle>>

\* resp, err := http.Get(fileURL); defer resp.Body.Close()
WhDownload(w) ==
    /\ wh[w].pc = "download"
    /\ LET rec == [wh[w] EXCEPT !.trace = Append(@, "httpGet")] IN
       \/ wh' = [wh EXCEPT ![w] = Fail(rec, "httpGet", "downloadError")]
       \/ \E code \in {200, 404} :
            wh' = [wh EXCEPT ![w] =
                     [rec EXCEPT !.pc = "upload", !.respStatus = code, !.bodyOpen = TRUE]]
    /\ UNCHANGED <<stateStore, credStore, nonces, cb, owner, cbStarted, cbFinished, lastBundle>>

\* Faulty variant: the file is created in a folder, as the service-account
\* revisions did with Parents: []string{driveFolderID}
DriveFileInFolder(fileName, client) ==
    [created |-> TRUE, Name |-> fileName, Parents |-> <<"driveFolderID">>, Token |-> client]

\* driveFile := &drive.File{Name: fileName}
DriveFile(fileName, client) ==
    [created |-> TRUE, Name |-> fileName, Parents |-> <<>>, Token |-> client]

\* Faulty variant: after the upload the relay writes a refreshed token back to
\* the sender's document in user_tokens
WhUploadSavingRefreshedToken(w) ==
    /\ wh[w].pc = "upload"
    /\ LET rec == [wh[w] EXCEPT !.trace = Append(@, "driveCreate")] IN
       \/ /\ wh' = [wh EXCEPT ![w] = Fail(rec, "driveCreate", "uploadError")]
          /\ UNCHANGED <<credStore, lastBundle>>
       \/ /\ wh' = [wh EXCEPT ![w] =
                      Reply([rec EXCEPT !.upload = DriveFile(rec.fileName, rec.client)],
                            "uploaded", rec.fileName, 0)]
          /\ \E b \in Bundles :
                /\ credStore' = [credStore EXCEPT
                                    ![Msg(w).From] = MakeUserToken(Msg(w).From, b)]
                /\ lastBundle' = [lastBundle EXCEPT ![Msg(w).From] = b]
    /\ UNCHANGED <<stateStore, nonces, cb, owner, cbStarted, cbFinished>>

\* driveService.Files.Create(driveFile).Media(resp.Body).Do()
WhUpload(w) ==
    /\ wh[w].pc = "upload"
    /\ LET rec == [wh[w] EXCEPT !.trace = Append(@, "driveCreate")] IN
       \/ wh' = [wh EXCEPT ![w] = Fail(rec, "driveCreate", "uploadError")]
       \/ wh' = [wh EXCEPT ![w] =
                   Reply([rec EXCEPT !.upload = DriveFile(rec.fileName, rec.client)],
                         "uploaded", rec.fileName, 0)]
    /\ UNCHANGED <<stateStore, credStore, nonces, cb, owner, cbStarted, cbFinished, lastBundle>>

\* Faulty variant: the status of the response follows the outcome of the handler
FinishStatusByOutcome(rec, call) ==
    [rec EXCEPT !.pc = "return", !.trace = Append(@, call),
                !.status = IF rec.err = "" /\ call = "send"
                           THEN StatusOK ELSE StatusInternalServerError,
                !.bodyOpen = FALSE]

\* replyToUser: bot.Send(msg); a send error is logged and nothing else.  The
\* handler then returns to webhookHandler (the deferred resp.Body.Close()
\* runs), which ends with w.WriteHeader(http.StatusOK).
Finish(rec, call) ==
    [rec EXCEPT !.pc = "return", !.trace = Append(@, call),
                !.status = StatusOK, !.bodyOpen = FALSE]

WhReply(w) ==
    /\ wh[w].pc = "reply"
    /\ \/ wh' = [wh EXCEPT ![w] = Finish(@, "send")]
       \/ wh' = [wh EXCEPT ![w] = Finish(@, "sendFailed")]
    /\ UNCHANGED <<stateStore, credStore, nonces, cb, owner, cbStarted, cbFinished, lastBundle>>

\* the response is out and the request is over
WhReturn(w) ==
    /\ wh[w].pc = "return"
    /\ wh' = [wh EXCEPT ![w] = IdleWebhook]
    /\ UNCHANGED <<stateStore, credStore, nonces, cb, owner, cbStarted, cbFinished, lastBundle>>

Init ==
    /\ wh = [w \in WhIds |-> IdleWebhook]
    /\ stateStore =[t \in QueryStates |-> NoDoc]
    /\ credStore = [u \in Users |-> NoDoc]
    /\ nonces = 0
    /\ cb = [r \in CbIds |-> IdleCallback]
    /\ owner = [t \in States |-> 0]
    /\ cbStarted = [t \in States |-> FALSE]
    /\ cbFinished = [t \in States |-> FALSE]
    /\ lastBundle = [u \in Users |-> NoToken]

\* the updates that carry the /connect_drive command
ConnectUpdates ==
    {u \in Updates : u.hasMessage /\ Route(u.Message) = "connect"}

\* The whole server: every request kind, all of them concurrent.
Next ==
    \/ \E r \in CbIds, s \in QueryStates : CbGetState(r, s)
    \/ \E r \in CbIds : CbExchange(r)
    \/ \E r \in CbIds : CbSetCred(r)
    \/ \E r \in CbIds : CbReturn(r)
    \/ \E w \in WhIds, upd \in Updates : WhDecode(w, upd)
    \/ \E w \in WhIds : WhConnectDrive(w)
    \/ \E w \in WhIds : WhGetCred(w)
    \/ \E w \in WhIds : WhNewService(w)
    \/ \E w \in WhIds : WhSizeGuard(w)
    \/ \E w \in WhIds : WhGetFileURL(w)
    \/ \E w \in WhIds : WhDownload(w)
    \/ \E w \in WhIds : WhUpload(w)
    \/ \E w \in WhIds : WhReply(w)
    \/ \E w \in WhIds : WhReturn(w)

\* The authorization handshake: concurrent callbacks against webhooks that
\* carry the /connect_drive command.
NextAuth ==
    \/ \E r \in CbIds, s \in QueryStates : CbGetState(r, s)
    \/ \E r \in CbIds : CbExchange(r)
    \/ \E r \in CbIds : CbSetCred(r)
    \/ \E r \in CbIds : CbReturn(r)
    \/ \E w \in WhIds, upd \in ConnectUpdates : WhDecode(w, upd)
    \/ \E w \in WhIds : WhConnectDrive(w)
    \/ \E w \in WhIds : WhReply(w)
    \/ \E w \in WhIds : WhReturn(w)

\* The webhook with every update, against authorizations that complete one
\* callback at a time.
NextRelay ==
    \/ \E s \in QueryStates : CbGetState(1, s)
    \/ CbExchange(1)
    \/ CbSetCred(1)
    \/ CbReturn(1)
    \/ \E w \in WhIds, upd \in Updates : WhDecode(w, upd)
    \/ \E w \in WhIds : WhConnectDrive(w)
    \/ \E w \in WhIds : WhGetCred(w)
    \/ \E w \in WhIds : WhNewService(w)
    \/ \E w \in WhIds : WhSizeGuard(w)
    \/ \E w \in WhIds : WhGetFileURL(w)
    \/ \E w \in WhIds : WhDownload(w)
    \/ \E w \in WhIds : WhUpload(w)
    \/ \E w \in WhIds : WhReply(w)
    \/ \E w \in WhIds : WhReturn(w)

Spec == Init /\ [][Next]_vars
SpecAuth == Init /\ [][NextAuth]_vars
SpecRelay == Init /\ [][NextRelay]_vars

\* ---------------------------------------------------------------------
\* Properties
\* ---------------------------------------------------------------------

Returning(r) == cb[r].pc = "return"
Called(rec, call) == \E i \in 1..Len(rec.trace) : rec.trace[i] = call
Replying(w) == wh[w].pc \in {"reply", "return"} /\ wh[w].reply # NoReply
NoRelayCalls(rec) ==
    /\ ~Called(rec, "getFileURL")
    /\ ~Called(rec, "httpGet")
    /\ ~Called(rec, "driveCreate")
    /\ rec.pc \notin {"geturl", "download", "upload"}
    /\ rec.upload = NoFile

C2_RedeemedAtMostOnce ==
    \A t \in States :
        Cardinality({r \in CbIds : /\ cb[r].state = t /\ cb[r].found
                                   /\ cb[r].exchanged /\ cb[r].wrote}) <= 1

\* C3: a callback whose state token is not in the state store at the lookup
\* is answered 400 and does nothing else: no exchange, no credential write.
C3_UnknownStateRejected ==
    \A r \in CbIds : (CbInFlight(r) /\ ~cb[r].present) =>
        /\ Returning(r)
        /\ cb[r].status = StatusBadRequest
        /\ ~cb[r].found /\ ~cb[r].exchanged /\ ~cb[r].wrote
        /\ cb[r].token = NoToken

C3_Witness ==
    \E r \in CbIds :
        /\ Returning(r) /\ ~cb[r].present /\ cb[r].order = "late"
        /\ cb[r].status = StatusBadRequest

\* C4: every step that changes a user's credential record is the credential
\* write of a callback whose state token was issued to that user.
C4_WritesOnlyOwner ==
    [][\A u \in Users :
          credStore'[u] # credStore[u] =>
              \E r \in CbIds : /\ cb[r].pc = "set" /\ cb'[r].wrote
                               /\ owner[cb[r].state] = u]_vars

C4_Witness ==
    \E r \in CbIds :
        /\ Returning(r) /\ cb[r].wrote
        /\ owner[cb[r].state] = cb[r].userID
        /\ credStore[cb[r].userID].exists
        /\ \E u \in Users : u # cb[r].userID /\ ~credStore[u].exists

C6_ExchangeFailurePersistsNothing ==
    \A r \in CbIds : cb[r].exchErr =>
        /\ Returning(r)
        /\ cb[r].status = StatusInternalServerError
        /\ ~cb[r].wrote /\ ~cb[r].exchanged

C6_Witness ==
    \E r \in CbIds :
        /\ Returning(r) /\ cb[r].exchErr
        /\ cb[r].status = StatusInternalServerError
        /\ \A u \in Users : ~credStore[u].exists

\* C7: the callback's answer is 400 exactly when the state document was not
\* there, 500 exactly when the exchange or the credential write failed, and
\* 200 with the confirmation text exactly when the state was found, the
\* exchange succeeded and the credential was written.
C7_ThreeOutcomes ==
    \A r \in CbIds : Returning(r) =>
        /\ cb[r].status \in {StatusBadRequest, StatusInternalServerError, StatusOK}
        /\ cb[r].status = StatusBadRequest <=> ~cb[r].present
        /\ cb[r].status = StatusInternalServerError
              <=> (cb[r].present /\ (cb[r].exchErr \/ cb[r].setErr))
        /\ cb[r].status = StatusOK
              <=> (cb[r].present /\ cb[r].exchanged /\ cb[r].wrote)
        /\ cb[r].body = "authorization succeeded" <=> cb[r].status = StatusOK

C7_Witness ==
    \E r \in CbIds :
        /\ Returning(r) /\ cb[r].setErr
        /\ cb[r].status = StatusInternalServerError

\* C8: a stored credential holds exactly the four token fields of the bundle
\* whose exchange preceded the last write for that user, under that user's
\* id; and the token a relay builds its client from is exactly that bundle,
\* as last written when the relay looked the credential up.
C8_RoundTrip ==
    /\ \A u \in Users : credStore[u].exists =>
          /\ credStore[u].UserID = u
          /\ credStore[u].AccessToken = lastBundle[u].AccessToken
          /\ credStore[u].RefreshToken = lastBundle[u].RefreshToken
          /\ credStore[u].TokenType = lastBundle[u].TokenType
          /\ credStore[u].Expiry = lastBundle[u].Expiry
    /\ \A w \in WhIds : wh[w].client # NoToken =>
          /\ wh[w].bundleThen \in Bundles
          /\ wh[w].client = wh[w].bundleThen

C8_Witness ==
    \E w \in WhIds :
        /\ wh[w].pc = "upload"
        /\ wh[w].client = TokenBundle(2)
        /\ wh[w].client = lastBundle[Msg(w).From]

\* a file relay that has looked the credential up and found none
Unlinked(w) == WhInFlight(w) /\ Called(wh[w], "credGet") /\ ~wh[w].hadCred

\* C9 as stated: a relay for a user without a stored credential replies
\* "not linked" and makes no call to Telegram's file API or to Drive.
C9_Original ==
    \A w \in WhIds : Unlinked(w) =>
        /\ Replying(w) /\ wh[w].reply.kind = "notLinked"
        /\ NoRelayCalls(wh[w])

\* C9 (amended): a relay for a user without a stored credential makes no
\* call to Telegram's file API or to Drive and builds no client; it replies
\* "not linked" when the lookup answers NotFound and with the read-error
\* text when the lookup fails otherwise.
C9_UnlinkedNoStorageCall ==
    \A w \in WhIds : Unlinked(w) =>
        /\ Replying(w)
        /\ NoRelayCalls(wh[w])
        /\ wh[w].client = NoToken
        /\ \/ wh[w].err = "credNotFound" /\ wh[w].reply.kind = "notLinked"
           \/ wh[w].err = "credGet" /\ wh[w].reply.kind = "readError"

C9_Witness ==
    \E w \in WhIds :
        /\ Unlinked(w) /\ wh[w].pc = "return"
        /\ wh[w].reply.kind = "notLinked"
        /\ Msg(w).Document.present

\* the attachment the relay picks declares more than 20 MiB
Oversized(m) ==
    IF m.Document.present THEN m.Document.FileSize > maxFileSize
    ELSE Len(m.Photo) > 0 /\ m.Photo[Len(m.Photo)].FileSize > maxFileSize

OversizedEvent(w) ==
    WhInFlight(w) /\ wh[w].update.hasMessage /\ ~IsCommand(Msg(w)) /\ Oversized(Msg(w))

\* C10 as stated: every relay of a file declaring more than 20 MiB replies
\* with the size and never resolves the URL, downloads or uploads.
C10_Original ==
    \A w \in WhIds : OversizedEvent(w) =>
        /\ NoRelayCalls(wh[w])
        /\ Replying(w) => wh[w].reply.kind = "tooLarge"

\* C10 (amended): a relay of a file declaring more than 20 MiB never resolves
\* the URL, downloads or uploads; unless the credential lookup or the
\* construction of the Drive service has already ended it with its own
\* reply, its reply is the one that reports the size (in hundredths of a MB).
C10_OversizedRejectedBeforeDownload ==
    \A w \in WhIds : OversizedEvent(w) =>
        /\ NoRelayCalls(wh[w])
        /\ wh[w].pc \in {"lookup", "service", "classify", "reply", "return"}
        /\ Replying(w) =>
              \/ wh[w].err \in {"credNotFound", "credGet", "newService"}
              \/ /\ wh[w].err = ""
                 /\ wh[w].reply.kind = "tooLarge"
                 /\ wh[w].reply.num = SizeInHundredthsMB(wh[w].fileSize)
                 /\ wh[w].fileSize > maxFileSize

C10_Witness ==
    \E w \in WhIds :
        /\ OversizedEvent(w) /\ wh[w].pc = "return"
        /\ wh[w].reply.kind = "tooLarge"
        /\ wh[w].reply.num = 2003
        /\ Len(Msg(w).Photo) > 0

\* a webhook request that webhookHandler hands to handleFile
FileEvent(w) ==
    WhInFlight(w) /\ wh[w].update.hasMessage /\ Route(Msg(w)) = "lookup"

\* the download came back without the file: a transport error, or a
\* response whose status is not 200
DownloadFailed(rec) ==
    /\ Called(rec, "httpGet")
    /\ rec.err = "httpGet" \/ rec.respStatus # StatusOK

\* C11: a relay whose download GET fails at the transport level or returns a
\* non-success status never uploads to Drive, and the reply it sends is the
\* download error.
C11_DownloadFailureNoUpload ==
    \A w \in WhIds : (FileEvent(w) /\ DownloadFailed(wh[w])) =>
        /\ ~Called(wh[w], "driveCreate")
        /\ wh[w].upload = NoFile
        /\ Replying(w) => wh[w].reply.kind = "downloadError"

Count(rec, call) == Cardinality({i \in 1..Len(rec.trace) : rec.trace[i] = call})
Sends(rec) == Count(rec, "send") + Count(rec, "sendFailed")

\* the external calls of a file event that ended with the error of call err
CallsUpTo(err) ==
    CASE err \in {"credNotFound", "credGet", "newService"} -> <<"credGet">>
      [] err = "getFileURL" -> <<"credGet", "getFileURL">>
      [] err = "httpGet" -> <<"credGet", "getFileURL", "httpGet">>
      [] err = "driveCreate" -> <<"credGet", "getFileURL", "httpGet", "driveCreate">>

\* the reply that reports the error of call err
ErrorReply(err) ==
    CASE err = "credNotFound" -> "notLinked"
      [] err = "credGet" -> "readError"
      [] err = "newService" -> "serviceError"
      [] err = "getFileURL" -> "urlError"
      [] err = "httpGet" -> "downloadError"
      [] err = "driveCreate" -> "uploadError"

C13_Always200UnlessDecodeFails ==
    \A w \in WhIds : wh[w].pc = "return" =>
        /\ wh[w].update.decodes => wh[w].status = StatusOK
        /\ ~wh[w].update.decodes => wh[w].status = StatusBadRequest

C13_Witness ==
    \E w \in WhIds :
        /\ wh[w].pc = "return" /\ wh[w].status = StatusOK
        /\ wh[w].err = "getFileURL"
        /\ wh[w].trace[Len(wh[w].trace)] = "sendFailed"

\* C14: an update that does not decode, or that carries no message, is
\* answered at once: no reply, no read or write of either store, no call to
\* Telegram or Drive.
C14_NoProcessingWithoutMessage ==
    \A w \in WhIds :
        (WhInFlight(w) /\ (~wh[w].update.decodes \/ ~wh[w].update.hasMessage)) =>
            /\ wh[w].pc = "return"
            /\ wh[w].reply = NoReply
            /\ wh[w].trace = <<>>
            /\ wh[w].err = "" /\ wh[w].state = 0
            /\ wh[w].userToken = NoDoc /\ wh[w].client = NoToken
            /\ wh[w].upload = NoFile

C14_Witness ==
    \E w \in WhIds :
        /\ wh[w].pc = "return"
        /\ wh[w].update.decodes /\ ~wh[w].update.hasMessage
        /\ wh[w].status = StatusOK /\ wh[w].trace = <<>>
        /\ \E u \in Users : credStore[u].exists

\* a webhook request that webhookHandler hands to handleConnectDrive
ConnectEvent(w) ==
    WhInFlight(w) /\ wh[w].update.hasMessage /\ Route(Msg(w)) = "connect"

\* C15: a /connect_drive whose reply is the authorization URL has stored the
\* URL's state token with the sender's id before (the document is still
\* there, or a callback has already taken the token up); one whose Set failed
\* replies with the error text, no URL, and has stored nothing; either way
\* the webhook completes with 200.
C15_StateStoredBeforeURL ==
    \A w \in WhIds : ConnectEvent(w) =>
        /\ wh[w].reply.kind = "authURL" =>
              /\ wh[w].trace[1] = "stateSet" /\ wh[w].err = ""
              /\ wh[w].reply.num = wh[w].state
              /\ owner[wh[w].state] = Msg(w).From
              /\ stateStore[wh[w].state].exists
                    => stateStore[wh[w].state] = StateDoc(Msg(w).From)
              /\ stateStore[wh[w].state].exists \/ cbStarted[wh[w].state]
        /\ wh[w].err = "stateSet" =>
              /\ wh[w].reply.kind = "linkError"
              /\ ~stateStore[wh[w].state].exists
              /\ owner[wh[w].state] = 0
        /\ wh[w].pc = "return" =>
              /\ wh[w].status = StatusOK
              /\ wh[w].reply.kind \in {"authURL", "linkError"}

C15_Witness ==
    \E w \in WhIds :
        /\ ConnectEvent(w) /\ wh[w].pc = "return"
        /\ wh[w].err = "stateSet" /\ wh[w].reply.kind = "linkError"
        /\ wh[w].status = StatusOK
        /\ wh[w].state = 2 /\ stateStore[1].exists

\* the widest of the size variants of a photo message
Largest(photos) ==
    CHOOSE p \in {photos[i] : i \in 1..Len(photos)} :
        \A i \in 1..Len(photos) : photos[i].Width <= p.Width

\* a file event for a photo that has got past the classification
PhotoClassified(w) ==
    /\ FileEvent(w) /\ ~Msg(w).Document.present
    /\ wh[w].pc \in {"geturl", "download", "upload", "reply", "return"}
    /\ wh[w].err \notin {"credNotFound", "credGet", "newService"}

\* C16: for a photo message, whatever the order of its size variants, the
\* relay picks the largest variant: it resolves that variant's file id and
\* names the created file <that id>.jpg.
C16_LargestVariantSelected ==
    \A w \in WhIds : PhotoClassified(w) =>
        /\ wh[w].fileID = Largest(Msg(w).Photo).FileID
        /\ wh[w].fileName = JpgName(Largest(Msg(w).Photo).FileID)
        /\ wh[w].upload.created
              => wh[w].upload.Name = JpgName(Largest(Msg(w).Photo).FileID)

\* a file event for a document within the size limit that has come to its
\* reply without any step failing
DocumentRelayed(w) ==
    /\ FileEvent(w) /\ Msg(w).Document.present
    /\ ~TooLarge(Msg(w).Document.FileSize)
    /\ wh[w].pc \in {"reply", "return"} /\ wh[w].err = ""

\* C17: a document within the size limit, from a user with a credential,
\* whose steps all succeed: the URL is resolved for the document's file id,
\* the file is downloaded, the Drive file is created under exactly the
\* document's file name with no parent folder and with the client built from
\* the user's credential, and the reply confirms with that file name.
C17_DocumentRelay ==
    \A w \in WhIds : DocumentRelayed(w) =>
        /\ wh[w].hadCred
        /\ SubSeq(wh[w].trace, 1, 4) = <<"credGet", "getFileURL", "httpGet", "driveCreate">>
        /\ wh[w].urlFor = Msg(w).Document.FileID
        /\ wh[w].upload.created
        /\ wh[w].upload.Name = Msg(w).Document.FileName
        /\ wh[w].upload.Parents = <<>>
        /\ wh[w].upload.Token = ClientToken(wh[w].userToken)
        /\ wh[w].reply.kind = "uploaded"
        /\ wh[w].reply.name = Msg(w).Document.FileName

C17_Witness ==
    \E w \in WhIds :
        /\ DocumentRelayed(w) /\ wh[w].pc = "return"
        /\ wh[w].urlFor = "abc123" /\ wh[w].fileSize = 500000
        /\ wh[w].respStatus = StatusOK
        /\ wh[w].upload.Name = <<"report.pdf">>
        /\ wh[w].reply = [kind |-> "uploaded", name |-> <<"report.pdf">>, num |-> 0]

\* a webhook request with a command that has come to its reply
CommandReplied(w) ==
    /\ WhInFlight(w) /\ wh[w].update.hasMessage /\ IsCommand(Msg(w))
    /\ wh[w].pc \in {"reply", "return"}

\* the request has touched neither store and made no relay call
NoStoreNoRelay(rec) ==
    /\ ~Called(rec, "stateSet") /\ ~Called(rec, "credGet")
    /\ rec.state = 0 /\ rec.userToken = NoDoc
    /\ NoRelayCalls(rec)

\* C18 as stated: "start" and "help" reply with the static instructions and
\* touch no store, "connect_drive" runs handleConnectDrive and replies with
\* what it produced (the URL, or the error text when the Set failed), every
\* other command gets the "unrecognized" reply, and no command reaches the
\* relay.
C18_Original ==
    \A w \in WhIds : CommandReplied(w) =>
        /\ Msg(w).Command \in {"start", "help"} =>
              wh[w].reply.kind = "welcome" /\ NoStoreNoRelay(wh[w])
        /\ Msg(w).Command = "connect_drive" =>
              /\ wh[w].reply.kind \in {"authURL", "linkError"}
              /\ wh[w].trace[1] = "stateSet"
        /\ Msg(w).Command \notin {"start", "help", "connect_drive"} =>
              wh[w].reply.kind = "unrecognized" /\ NoStoreNoRelay(wh[w])
        /\ ~Called(wh[w], "credGet") /\ NoRelayCalls(wh[w])

\* C18 (amended): "start" alone replies with the static instructions and
\* touches no store; "connect_drive" runs handleConnectDrive and replies with
\* what it produced; every other command, "help" included, gets the
\* "unrecognized" reply and touches no store; no command reaches the relay.
C18_CommandTable ==
    \A w \in WhIds : CommandReplied(w) =>
        /\ Msg(w).Command = "start" =>
              wh[w].reply.kind = "welcome" /\ NoStoreNoRelay(wh[w])
        /\ Msg(w).Command = "connect_drive" =>
              /\ wh[w].reply.kind \in {"authURL", "linkError"}
              /\ wh[w].trace[1] = "stateSet"
        /\ Msg(w).Command \notin {"start", "connect_drive"} =>
              wh[w].reply.kind = "unrecognized" /\ NoStoreNoRelay(wh[w])
        /\ ~Called(wh[w], "credGet") /\ NoRelayCalls(wh[w])

C18_Witness ==
    \E w \in WhIds :
        /\ CommandReplied(w) /\ wh[w].pc = "return"
        /\ Msg(w).Command = "help"
        /\ wh[w].reply.kind = "unrecognized"
        /\ wh[w].trace = <<"send">>

\* C19: the reply to /start and the reply to /connect_drive are both the
\* Google authorization link (or, for want of one, the text that says the
\* link could not be produced).
C19_StartRepliesWithLink ==
    \A w \in WhIds :
        (CommandReplied(w) /\ Msg(w).Command \in {"start", "connect_drive"}) =>
            wh[w].reply.kind \in {"authURL", "linkError"}

\* a message with no command and no attachment
PlainText(m) == ~IsCommand(m) /\ ~m.Document.present /\ Len(m.Photo) = 0

\* C20: a message with no command and no attachment is answered with the
\* prompt to send a file or use /connect_drive, and with nothing else: no
\* read or write of either store, no call to Telegram's file API or Drive.
C20_PlainTextPrompt ==
    \A w \in WhIds :
        (WhInFlight(w) /\ wh[w].update.hasMessage /\ PlainText(Msg(w))) =>
            /\ wh[w].pc \in {"reply", "return"}
            /\ wh[w].reply.kind = "prompt"
            /\ NoStoreNoRelay(wh[w])
            /\ wh[w].client = NoToken /\ wh[w].err = ""
            /\ wh[w].trace \in {<<>>, <<"send">>, <<"sendFailed">>}

C20_Witness ==
    \E w \in WhIds :
        /\ wh[w].pc = "return" /\ wh[w].update.hasMessage
        /\ PlainText(Msg(w)) /\ Msg(w).Text = "hello"
        /\ wh[w].reply.kind = "prompt" /\ wh[w].trace = <<"send">>
        /\ wh[w].status = StatusOK

\* C21: the credential store holds one record per user id, and every write
\* replaces it whole: after a step that changes a user's record, the record
\* is exactly the UserToken built from the bundle of the callback that made
\* the write, in all four token fields (so the record is always that of the
\* last write, never a mixture of two exchanges).
C21_LastWriteWins ==
    [][\A u \in Users :
          credStore'[u] # credStore[u] =>
              \E r \in CbIds :
                  /\ cb[r].pc = "set" /\ cb'[r].wrote
                  /\ cb[r].userID = u /\ cb[r].token \in Bundles
                  /\ credStore'[u] = MakeUserToken(u, cb[r].token)]_vars

\* two callbacks for the same user have both written, with different
\* bundles, and the record is the bundle of one of them
C21_Witness ==
    \E r1, r2 \in CbIds :
        /\ r1 # r2 /\ Returning(r1) /\ Returning(r2)
        /\ cb[r1].wrote /\ cb[r2].wrote
        /\ cb[r1].userID = cb[r2].userID
        /\ cb[r1].token # cb[r2].token
        /\ credStore[cb[r1].userID] = MakeUserToken(cb[r1].userID, cb[r2].token)

\* C22: no step removes a credential record: a user who has one has one
\* after every step of every webhook request and every callback.
C22_CredentialNeverDeleted ==
    [][\A u \in Users : credStore[u].exists => credStore'[u].exists]_vars

\* a user with a record has since had a file relayed and two callbacks with
\* their tokens returned
C22_Witness ==
    \E u \in Users, w \in WhIds :
        /\ credStore[u].exists
        /\ owner[1] = u /\ owner[2] = u /\ cbFinished[1] /\ cbFinished[2]
        /\ wh[w].pc = "return" /\ wh[w].reply.kind = "uploaded"
        /\ wh[w].update.Message.From = u

\* the external calls of the request so far, the sends of replies left out
RelayCalls(rec) == SelectSeq(rec.trace, LAMBDA c : c \notin {"send", "sendFailed"})

RelaySteps == <<"credGet", "getFileURL", "httpGet", "driveCreate">>

\* C23: the steps of a file event run in the order lookup, client, size
\* guard, URL resolution, download, upload, confirmation, each one only after
\* the one before it succeeded: the URL is resolved only with a client built
\* and a file within the limit, the download starts only after the URL was
\* resolved, the upload only after a download that succeeded (no transport
\* error and a 200 response), and the confirmation is sent only after a
\* successful upload.
C23_StrictSequence ==
    \A w \in WhIds : FileEvent(w) =>
        /\ RelayCalls(wh[w]) = SubSeq(RelaySteps, 1, Len(RelayCalls(wh[w])))
        /\ Called(wh[w], "getFileURL") =>
              /\ wh[w].client # NoToken /\ wh[w].fileID # ""
              /\ ~TooLarge(wh[w].fileSize)
        /\ Called(wh[w], "httpGet") => wh[w].err # "getFileURL"
        /\ Called(wh[w], "driveCreate") =>
              /\ wh[w].err # "httpGet"
              /\ wh[w].respStatus = StatusOK
        /\ wh[w].reply.kind = "uploaded" =>
              /\ Called(wh[w], "driveCreate") /\ wh[w].err = ""
              /\ wh[w].upload.created
        /\ Sends(wh[w]) > 0 => wh[w].pc = "return"

\* the file event has picked its file
Classified(w) == FileEvent(w) /\ wh[w].fileID # ""

\* the file event has got past the size guard
PassedGuard(rec) == rec.pc = "geturl" \/ Called(rec, "getFileURL")

\* C24: the size guard rejects exactly the declared sizes above 20971520
\* bytes: a file of 20971520 bytes or less (0 included) goes on to the URL
\* resolution, a file of 20971521 bytes or more is answered with the size
\* reply and goes no further.
C24_SizeBoundary ==
    \A w \in WhIds : Classified(w) =>
        /\ wh[w].fileSize = Classify(Msg(w)).fileSize
        /\ wh[w].fileSize <= 20971520 =>
              PassedGuard(wh[w]) /\ wh[w].reply.kind # "tooLarge"
        /\ wh[w].fileSize >= 20971521 =>
              /\ ~PassedGuard(wh[w])
              /\ wh[w].pc \in {"reply", "return"}
              /\ wh[w].reply.kind = "tooLarge"

C24_Witness ==
    \E w \in WhIds :
        /\ Classified(w) /\ wh[w].fileSize = 20 * 1024 * 1024
        /\ wh[w].pc = "download" /\ wh[w].urlFor = "abc123"

C26_WebhookLeavesCredentials ==
    [][/\ wh' # wh =>
            /\ credStore' = credStore
            /\ stateStore' # stateStore =>
                  \E w \in WhIds, t \in States :
                      /\ wh[w].pc = "connect" /\ ~stateStore[t].exists
                      /\ stateStore' = [stateStore EXCEPT ![t] = StateDoc(Msg(w).From)]
       /\ credStore' # credStore => cb' # cb]_vars

\* a file has been relayed for a user with a record while a state token
\* stored by /connect_drive is waiting
C26_Witness ==
    \E w \in WhIds, t \in States :
        /\ wh[w].pc = "reply" /\ wh[w].reply.kind = "uploaded"
        /\ credStore[Msg(w).From].exists
        /\ stateStore[t].exists /\ ~cbStarted[t]
=============================================================================
